---- MODULE Spec2Model ----
(***************************************************************************)
(* Model of the extraction pipeline of Filemanager2:                       *)
(*   - CircuitBreaker            (utils/error_handlers.py)                 *)
(*   - retry_with_backoff        (utils/error_handlers.py)                 *)
(*   - extract_content and the ExtractionTask ledger                       *)
(*                               (tasks/content_extraction.py)             *)
(*   - EmbeddingsService        (services/embeddings.py)                  *)
(* Each subsystem has its own next-state relation and specification; the   *)
(* variables of the other subsystems keep their initial values.            *)
(***************************************************************************)
EXTENDS Integers, Sequences, FiniteSets, TLC

\* ------------------------------------------------------------------ bounds
\* number of threads sharing the breaker
NumCallers == 2
\* total number of CircuitBreaker.call invocations explored
MaxCalls == 5
\* the clock runs over 0..MaxTime
MaxTime == 4

\* number of celery workers executing extract_content
NumWorkers == 2
\* task ids are 1..NumTaskIds
NumTaskIds == 2
\* number of ExtractionTask rows created where the requests are capped
MaxTasks == 1
\* number of duplicate deliveries of a message by the queue
MaxDups == 1
\* the clock of the ledger runs over 0..MaxLedgerTime
MaxLedgerTime == 1
\* where cleanups run the clock counts days and runs over 0..MaxCleanupTime
MaxCleanupTime == 9
\* cleanup_old_tasks is called with days in 1..MaxDays
MaxDays == 2

\* number of EmbeddingsService instances alive at a time
NumServices == 2
\* files that get embeddings: 1..NumEmbFiles
NumEmbFiles == 3
\* total number of store_embedding calls explored
MaxStores == 4
\* similarity queries ask for 1..MaxLimit neighbours
MaxLimit == 2
\* workers executing index_content
NumIndexers == 2
\* index_content messages of one file waiting at the broker
MaxIndexQueue == 2
\* values of random.random() explored: r / JitterSteps, r in 0..JitterSteps-1
JitterSteps == 2
\* requests to trigger_content_extraction explored
MaxRequests == 3

\* ------------------------------------------------- program parameters
\* tika_circuit_breaker = CircuitBreaker(failure_threshold=3, ...)
failure_threshold == 3
\* recovery_timeout of the breaker, in ticks of the model clock
recovery_timeout == 2

\* cleanup_failed_tasks: timedelta(days=7)
Retention == 7

\* Python's None for a timestamp that was never set
None == 0 - 1

VARIABLES
    \* --- clock (time.time(), datetime.utcnow())
    now,
    \* --- CircuitBreaker fields
    state, failure_count, last_failure_time,
    \* --- per caller of CircuitBreaker.call: position, the value of
    \*     failure_count loaded by "+= 1", the breaker state under which the
    \*     wrapped function was invoked, how the last call ended
    cpc, ctmp, centry, cres,
    \* --- history of the breaker: calls begun; the calls that ended with an
    \*     exception since the last successful call, and whether each of them
    \*     invoked the wrapped function; when the wrapped function of the last
    \*     call let through in half-open raised
    ncalls, streakCalls, streakInvoked, trialRaisedAt,
    \* --- one call of a function wrapped by retry_with_backoff: position,
    \*     loop variable, last_exception, how the call ended; and its history:
    \*     the outcome of every invocation of the wrapped function, the number
    \*     of time.sleep calls
    rpc, attempt, last_exception, rresult, invocations, sleeps,
    \* --- one call of TikaService.extract_text: how each invocation of
    \*     tika_circuit_breaker.call(_extract) ended, before the decorators
    \*     of extract_text handled it
    rawOutcomes,
    \* --- the arguments of the retry_with_backoff decorator in use, and the
    \*     delay computed before each sleep of the call
    backoff, delays,
    \* --- database: extraction_tasks rows by task_id, extracted_content rows
    \*     by file_id
    tasks, content,
    \* --- broker: extract_content messages (a bag), index_content messages per
    \*     file, duplicate deliveries made so far
    queue, indexQueue, dups,
    \* --- per worker executing extract_content: position, the message, the
    \*     text extracted, the exception caught, the retry_count loaded by
    \*     "+= 1", how the last execution ended
    wpc, wmsg, wtext, wexc, wtmp, wres,
    \* --- history of the pipeline: per task, the executions of
    \*     extract_content that sent a request to the collaborator (line 60)
    requests,
    \* --- and, per task, whether a commit of line 91 has persisted the
    \*     content row completed and the ledger entry completed with
    \*     completed_at
    saved,
    \* --- the requests to trigger_content_extraction answered so far, and
    \*     the last one with the ledger entry it returned
    response,
    \* --- database: the rows of search_index of each file, oldest first
    searchIndex,
    \* --- per worker executing index_content: position, the file_id of the
    \*     message, the text of the content row read, whether the lookup of
    \*     the search_index row found one, how the last execution ended
    ipc, ifile, itext, ifound, ires,
    \* --- embeddings: rows of file_embeddings by file_id; the index file
    \*     written by faiss.write_index
    embRows, indexFile,
    \* --- per EmbeddingsService instance: whether it is constructed, its
    \*     in-memory index (self.index), its position in store_embedding, the
    \*     arguments of that call and what the last call returned
    svcLive, svcIndex, epc, earg, eres,
    \* --- per instance: the row of file_id, the in-memory index and the
    \*     index file as they were when the store_embedding call began
    ebefore,
    \* --- store_embedding calls begun
    nstores,
    \* --- File.has_embeddings by file id
    hasEmbeddings,
    \* --- per instance: the similarity query being answered and its answer
    simArg, simResult

cbVars == <<state, failure_count, last_failure_time, cpc, ctmp, centry, cres,
            ncalls, streakCalls, streakInvoked, trialRaisedAt>>

retryVars == <<rpc, attempt, last_exception, rresult, invocations, sleeps,
               rawOutcomes, backoff, delays>>

dbVars == <<tasks, content>>
brokerVars == <<queue, indexQueue, dups>>
workerVars == <<wpc, wmsg, wtext, wexc, wtmp, wres>>
histVars == <<requests, saved, response>>
indexerVars == <<ipc, ifile, itext, ifound, ires>>
indexVars == <<searchIndex, indexerVars>>
ledgerVars == <<dbVars, brokerVars, workerVars, histVars, indexVars>>

storeVars == <<embRows, indexFile, svcLive, svcIndex, earg, eres, nstores, hasEmbeddings,
               ebefore>>
simVars == <<simArg, simResult>>
embVars == <<storeVars, epc, simVars>>

vars == <<now, cbVars, retryVars, ledgerVars, embVars>>

\* the variables a subsystem leaves alone
notCB == <<retryVars, ledgerVars, embVars>>
notRetry == <<cbVars, ledgerVars, embVars>>
notLedger == <<cbVars, retryVars, embVars>>
notEmb == <<cbVars, retryVars, ledgerVars>>

Callers == 1..NumCallers

\* ================================================================ clock
Tick ==
    /\ now < MaxTime
    /\ now' = now + 1
    /\ UNCHANGED <<cbVars, retryVars, ledgerVars, embVars>>

LedgerTick ==
    /\ now < MaxLedgerTime
    /\ now' = now + 1
    /\ UNCHANGED <<cbVars, retryVars, ledgerVars, embVars>>

CleanupTick ==
    /\ now < MaxCleanupTime
    /\ now' = now + 1
    /\ UNCHANGED <<cbVars, retryVars, ledgerVars, embVars>>

\* ======================================================= CircuitBreaker
\* CircuitBreaker.__init__
CBInit ==
    /\ state = "closed"
    /\ failure_count = 0
    /\ last_failure_time = None
    /\ cpc = [c \in Callers |-> "idle"]
    /\ ctmp = [c \in Callers |-> 0]
    /\ centry = [c \in Callers |-> "none"]
    /\ cres = [c \in Callers |-> "none"]
    /\ trialRaisedAt = None
    /\ ncalls = 0
    /\ streakCalls = 0
    /\ streakInvoked = TRUE

\* CircuitBreaker._should_attempt_reset
_should_attempt_reset ==
    IF last_failure_time = None THEN TRUE
    ELSE (now - last_failure_time) >= recovery_timeout

\* the test of _on_failure that opens the breaker
OpensAt_Gt(count) == count > failure_threshold
OpensAt(count) == count >= failure_threshold

\* the timestamp _on_failure stores
FailureStamp_Keep(t) == IF last_failure_time = None THEN t ELSE last_failure_time
FailureStamp(t) == t

\* the value _on_success stores in failure_count
SuccessCount_Keep(count) == count
SuccessCount(count) == 0

\* the test of call() that lets a call through to the wrapped function
Admits_Always(s) == TRUE
Admits(s) == IF s = "open" THEN _should_attempt_reset ELSE TRUE

\* call(), lines 248-255: the state test, with the clock read by
\* _should_attempt_reset, taken in one step; a call that is let through has
\* invoked the wrapped function, which is then running
CallEnter(c) ==
    /\ cpc[c] = "idle"
    /\ ncalls < MaxCalls
    /\ ncalls' = ncalls + 1
    /\ IF Admits(state)
         THEN /\ state' = IF state = "open" THEN "half-open" ELSE state
              /\ cpc' = [cpc EXCEPT ![c] = "in_func"]
              /\ centry' = [centry EXCEPT ![c] = state']
              /\ cres' = [cres EXCEPT ![c] = "none"]
              /\ UNCHANGED <<streakCalls, streakInvoked>>
         ELSE \* raise TikaConnectionError("Circuit breaker is open")
              /\ cres' = [cres EXCEPT ![c] = "open"]
              /\ centry' = [centry EXCEPT ![c] = "none"]
              /\ streakCalls' = streakCalls + 1
              /\ streakInvoked' = FALSE
              /\ UNCHANGED <<state, cpc>>
    /\ UNCHANGED <<now, notCB, failure_count, last_failure_time, ctmp, trialRaisedAt>>

\* line 255: the wrapped function returns normally
FuncReturns(c) ==
    /\ cpc[c] = "in_func"
    /\ cpc' = [cpc EXCEPT ![c] = "on_success_count"]
    /\ UNCHANGED <<now, notCB, state, failure_count, last_failure_time, ctmp, centry,
                   cres, trialRaisedAt, ncalls, streakCalls, streakInvoked>>

\* line 255/258: the wrapped function raises
FuncRaises(c) ==
    /\ cpc[c] = "in_func"
    /\ cpc' = [cpc EXCEPT ![c] = "on_failure_load"]
    /\ trialRaisedAt' = IF centry[c] = "half-open" THEN now ELSE trialRaisedAt
    /\ UNCHANGED <<now, notCB, state, failure_count, last_failure_time, ctmp, centry,
                   cres, ncalls, streakCalls, streakInvoked>>

\* _on_success, line 273
OnSuccessCount(c) ==
    /\ cpc[c] = "on_success_count"
    /\ failure_count' = SuccessCount(failure_count)
    /\ cpc' = [cpc EXCEPT ![c] = "on_success_state"]
    /\ UNCHANGED <<now, notCB, state, last_failure_time, ctmp, centry, cres, trialRaisedAt,
                   ncalls, streakCalls, streakInvoked>>

\* _on_success, line 274, and the return of call()
OnSuccessState(c) ==
    /\ cpc[c] = "on_success_state"
    /\ state' = "closed"
    /\ cpc' = [cpc EXCEPT ![c] = "idle"]
    /\ cres' = [cres EXCEPT ![c] = "ok"]
    /\ streakCalls' = 0
    /\ streakInvoked' = TRUE
    /\ UNCHANGED <<now, notCB, failure_count, last_failure_time, ctmp, centry,
                   trialRaisedAt, ncalls>>

\* _on_failure, line 278: the read of "self.failure_count += 1"
OnFailureLoad(c) ==
    /\ cpc[c] = "on_failure_load"
    /\ ctmp' = [ctmp EXCEPT ![c] = failure_count]
    /\ cpc' = [cpc EXCEPT ![c] = "on_failure_store"]
    /\ UNCHANGED <<now, notCB, state, failure_count, last_failure_time, centry, cres,
                   trialRaisedAt, ncalls, streakCalls, streakInvoked>>

\* _on_failure, line 278 (the write) and line 279
OnFailureStore(c) ==
    /\ cpc[c] = "on_failure_store"
    /\ failure_count' = ctmp[c] + 1
    /\ ctmp' = [ctmp EXCEPT ![c] = 0]
    /\ last_failure_time' = FailureStamp(now)
    /\ cpc' = [cpc EXCEPT ![c] = "on_failure_test"]
    /\ UNCHANGED <<now, notCB, state, centry, cres, trialRaisedAt, ncalls,
                   streakCalls, streakInvoked>>

\* _on_failure, lines 281-283, and the re-raise of call(), line 260
OnFailureTest(c) ==
    /\ cpc[c] = "on_failure_test"
    /\ state' = IF OpensAt(failure_count) THEN "open" ELSE state
    /\ cpc' = [cpc EXCEPT ![c] = "idle"]
    /\ cres' = [cres EXCEPT ![c] = "err"]
    /\ streakCalls' = streakCalls + 1
    /\ UNCHANGED streakInvoked
    /\ UNCHANGED <<now, notCB, failure_count, last_failure_time, ctmp, centry,
                   trialRaisedAt, ncalls>>

\* one step of caller c inside CircuitBreaker.call
CBStep(c) ==
    \/ CallEnter(c)
    \/ FuncReturns(c)
    \/ FuncRaises(c)
    \/ OnSuccessCount(c)
    \/ OnSuccessState(c)
    \/ OnFailureLoad(c)
    \/ OnFailureStore(c)
    \/ OnFailureTest(c)


\* =================================================== retry_with_backoff
\* retry_with_backoff(max_retries=3, ...): the decorator's default, and the
\* value TikaService.extract_text passes
max_retries == 3

\* lines 49-53: the arguments of the decorator: the defaults, and the values
\* decorations pass (extract_text: base_delay=2.0). Delays are in seconds
exponential_base == 2
DefaultBackoff == [base_delay |-> 1, max_delay |-> 60, jitter |-> TRUE]
BaseDelays == {1, 2}
MaxDelays == {1, 3, 60}

\* exception classes the wrapped function raises
ExcKinds == {"TikaConnectionError", "RequestException", "ConnectionError",
             "Timeout", "NonRetryableError", "ValueError", "TypeError",
             "RetryableError", "FileProcessingError", "ExtractionError",
             "Exception"}
\* values the wrapped function returns
RetVals == {"text_a", "text_b"}

\* line 252: the exception call() raises while the circuit is open
CircuitOpenError == "TikaConnectionError"

\* line 74: except (TikaConnectionError, RequestException, ConnectionError, Timeout)
RetryableExc_All == ExcKinds
RetryableExc == {"TikaConnectionError", "RequestException", "ConnectionError",
                 "Timeout"}
\* line 96: except (NonRetryableError, ValueError, TypeError)
NonRetryableExc == {"NonRetryableError", "ValueError", "TypeError"}

\* what one invocation of the wrapped function does
FnOutcomes ==
    [type : {"return"}, val : RetVals] \cup [type : {"raise"}, val : ExcKinds]

NoExc == <<"none", 0>>
NoResult == [kind |-> "none", val |-> "none", cause |-> NoExc]
Returned(v) == [kind |-> "return", val |-> v, cause |-> NoExc]
\* raise k(...str(e)...) inside the handler of e
Raised(k, e) == [kind |-> "raise", val |-> k, cause |-> e]

RetryInit ==
    /\ rpc = "call"
    /\ attempt = 0
    /\ last_exception = NoExc
    /\ rresult = NoResult
    /\ invocations = <<>>
    /\ sleeps = 0
    /\ rawOutcomes = <<>>
    /\ backoff = DefaultBackoff
    /\ delays = <<>>

\* line 71: for attempt in range(max_retries + 1)
RetryRange_Short == 0..(max_retries - 1)
RetryRange == 0..max_retries

\* line 77: if attempt == max_retries
Exhausted(a) == a = max_retries

\* lines 72-104: the wrapped function has ended with outcome o: the return
\* or the handler of the loop body that takes it
InvokeOutcome(o) ==
    LET e == <<o.val, Len(invocations) + 1>> IN
    /\ invocations' = Append(invocations, o)
    /\ IF o.type = "return"
         THEN /\ rresult' = Returned(o.val)
              /\ rpc' = "done"
              /\ UNCHANGED last_exception
       ELSE IF o.val \in RetryableExc
         THEN /\ last_exception' = e
              /\ IF Exhausted(attempt)
                   THEN /\ rresult' = Raised("RetryableError", e)
                        /\ rpc' = "done"
                   ELSE /\ rpc' = "sleep"
                        /\ UNCHANGED rresult
       ELSE IF o.val \in NonRetryableExc
         THEN /\ rresult' = Raised("NonRetryableError", e)
              /\ rpc' = "done"
              /\ UNCHANGED last_exception
         ELSE /\ rresult' = Raised("ExtractionError", e)
              /\ rpc' = "done"
              /\ UNCHANGED last_exception

\* lines 72-104: one invocation of the wrapped function and its handlers
RetryInvoke ==
    /\ rpc = "call"
    /\ \E o \in FnOutcomes : InvokeOutcome(o)
    /\ UNCHANGED <<now, notRetry, attempt, sleeps, rawOutcomes, backoff, delays>>

\* line 94, time.sleep returns: the next iteration of the loop, or line 106
\* when the range is used up
NextIteration ==
    /\ sleeps' = sleeps + 1
    /\ attempt' = attempt + 1
    /\ IF attempt + 1 \in RetryRange
         THEN /\ rpc' = "call"
              /\ UNCHANGED rresult
         ELSE /\ rresult' = Raised(last_exception[1], last_exception)
              /\ rpc' = "done"

\* line 94: time.sleep(delay), whatever the delay, then the next iteration
RetrySleep ==
    /\ rpc = "sleep"
    /\ NextIteration
    /\ UNCHANGED <<now, notRetry, last_exception, invocations, rawOutcomes,
                   backoff, delays>>

\* line 82: min(base_delay * (exponential_base ** attempt), max_delay)
Min(a, b) == IF a <= b THEN a ELSE b
Delay_Uncapped(b, a) == b.base_delay * (exponential_base ^ a)
Delay(b, a) == Min(b.base_delay * (exponential_base ^ a), b.max_delay)

\* line 87: delay * (0.5 + random.random() * 0.5), random.random() being
\* r / JitterSteps with r in 0..JitterSteps-1; a delay is the fraction
\* num / den of a second
Jittered(d, r) == [num |-> d * (JitterSteps + r), den |-> 2 * JitterSteps]
Unjittered(d) == [num |-> d, den |-> 1]

\* the function is decorated with other arguments than the defaults
Decorate(b) ==
    /\ rpc = "call"
    /\ invocations = <<>>
    /\ backoff = DefaultBackoff
    /\ b # DefaultBackoff
    /\ backoff' = b
    /\ UNCHANGED <<now, notRetry, rpc, attempt, last_exception, rresult,
                   invocations, sleeps, rawOutcomes, delays>>

\* lines 82-94: compute the delay, with random.random() = r / JitterSteps,
\* sleep, then the next iteration
RetryBackoff(r) ==
    LET d == Delay(backoff, attempt) IN
    /\ rpc = "sleep"
    /\ delays' = Append(delays,
                        [attempt |-> attempt, unjittered |-> d,
                         slept |-> IF backoff.jitter THEN Jittered(d, r)
                                   ELSE Unjittered(d)])
    /\ NextIteration
    /\ UNCHANGED <<now, notRetry, last_exception, invocations, rawOutcomes, backoff>>


\* ============================================ TikaService.extract_text
\* requests.exceptions: RequestException derives from IOError, ConnectionError
\* and Timeout from RequestException
RequestsExc == {"RequestException", "ConnectionError", "Timeout"}
\* open(file_path, "rb") raises these
FileExc == {"FileNotFoundError", "PermissionError"}

\* _extract, lines 40-60: the stripped body of a 200 response, None for any
\* other status
ResponseText == "text_a"
NonSuccess == "None"

\* how tika_circuit_breaker.call(_extract) can have ended, given what the
\* breaker recorded for the call: _extract returned, _extract raised (call()
\* re-raises the exception as it is, line 260), or the breaker was open
ExtractOutcomes(res) ==
    IF res = "ok" THEN [type : {"return"}, val : {ResponseText, NonSuccess}]
    ELSE IF res = "err" THEN [type : {"raise"}, val : {"ConnectionError", "Timeout"} \cup FileExc]
    ELSE [type : {"raise"}, val : {CircuitOpenError}]

\* handle_file_errors.wrapper, lines 155-173: FileNotFoundError and
\* PermissionError become NonRetryableError, every other exception (OSError,
\* which the exceptions of requests are, or Exception) FileProcessingError
handle_file_errors(o) ==
    IF o.type = "return" THEN o
    ELSE IF o.val \in FileExc THEN [type |-> "raise", val |-> "NonRetryableError"]
    ELSE [type |-> "raise", val |-> "FileProcessingError"]

\* handle_tika_errors.wrapper, lines 130-148: the exceptions of requests
\* become TikaConnectionError, every other exception ExtractionError
handle_tika_errors(o) ==
    IF o.type = "return" THEN o
    ELSE IF o.val \in RequestsExc THEN [type |-> "raise", val |-> "TikaConnectionError"]
    ELSE [type |-> "raise", val |-> "ExtractionError"]

\* extract_text without its retry decorator
DecoratedExtract(raw) == handle_tika_errors(handle_file_errors(raw))

\* line 62: the loop body of retry_with_backoff calls extract_text, which
\* calls tika_circuit_breaker.call(_extract)
ExtractTextCall ==
    /\ rpc = "call"
    /\ cres[1] = "none"
    /\ CallEnter(1)

\* call() has ended: its outcome passes the two inner decorators and reaches
\* the try statement of retry_with_backoff
ExtractTextInvoke ==
    /\ rpc = "call"
    /\ cpc[1] = "idle"
    /\ cres[1] # "none"
    /\ \E raw \in ExtractOutcomes(cres[1]) :
         /\ rawOutcomes' = Append(rawOutcomes, raw)
         /\ InvokeOutcome(DecoratedExtract(raw))
    /\ cres' = [cres EXCEPT ![1] = "none"]
    /\ UNCHANGED <<now, ledgerVars, embVars, attempt, sleeps, backoff, delays,
                   state, failure_count,
                   last_failure_time, cpc, ctmp, centry, ncalls, streakCalls,
                   streakInvoked, trialRaisedAt>>

\* the next call of extract_text
ExtractTextAgain ==
    /\ rpc = "done"
    /\ rpc' = "call"
    /\ attempt' = 0
    /\ last_exception' = NoExc
    /\ rresult' = NoResult
    /\ invocations' = <<>>
    /\ sleeps' = 0
    /\ rawOutcomes' = <<>>
    /\ UNCHANGED <<now, notRetry, backoff, delays>>

\* ================================== extract_content and the task ledger
Workers == 1..NumWorkers
\* workers executing index_content
Indexers == 1..NumIndexers
TaskIds == 1..NumTaskIds
\* rows of the files table
Files == {1}
\* texts the extraction collaborator returns
Texts == {"text_a"}
\* exceptions raised inside the try block of extract_content: the request
\* to the collaborator times out (line 60), the file row is missing (line 52)
ErrKinds == {"Timeout", "ValueError"}

\* ExtractionTask.max_retries = Column(Integer, default=3)
DefaultMaxRetries == 3
\* @celery_app.task(..., max_retries=3)
CeleryMaxRetries == 3

NoMsg == [task |-> 0, file |-> 0, retries |-> 0]
Msgs == [task : TaskIds, file : Files, retries : 0..CeleryMaxRetries]

\* no row with this key
NoTask == [file_id |-> 0, status |-> "absent", retry_count |-> 0,
           max_retries |-> 0, error_message |-> "None", started_at |-> None,
           completed_at |-> None, created_at |-> None]
NoContent == [extraction_status |-> "absent", content |-> "None",
              error_message |-> "None"]

\* db.delete(db.query(SearchIndex).filter(...).first()): the first row goes
DeleteFirst(rows) == IF rows = <<>> THEN <<>> ELSE Tail(rows)

\* ExtractionTask(file_id=..., task_id=..., status="pending") with the
\* column defaults of models/content_extraction.py
NewTask(f) == [file_id |-> f, status |-> "pending", retry_count |-> 0,
               max_retries |-> DefaultMaxRetries, error_message |-> "None",
               started_at |-> None, completed_at |-> None, created_at |-> now]

\* no request to trigger_content_extraction answered yet
NoResponse == [n |-> 0, file_id |-> 0, force_reextract |-> FALSE, task |-> 0]

LedgerInit ==
    /\ tasks = [t \in TaskIds |-> NoTask]
    /\ content = [f \in Files |-> NoContent]
    /\ queue = [m \in Msgs |-> 0]
    /\ indexQueue = [f \in Files |-> 0]
    /\ dups = 0
    /\ wpc = [w \in Workers |-> "idle"]
    /\ wmsg = [w \in Workers |-> NoMsg]
    /\ wtext = [w \in Workers |-> "None"]
    /\ wexc = [w \in Workers |-> "None"]
    /\ wtmp = [w \in Workers |-> 0]
    /\ wres = [w \in Workers |-> "none"]
    /\ searchIndex = [f \in Files |-> <<>>]
    /\ ipc = [i \in Indexers |-> "idle"]
    /\ ifile = [i \in Indexers |-> 0]
    /\ itext = [i \in Indexers |-> "None"]
    /\ ifound = [i \in Indexers |-> FALSE]
    /\ ires = [i \in Indexers |-> "none"]
    /\ requests = [t \in TaskIds |-> 0]
    /\ saved = [t \in TaskIds |-> FALSE]
    /\ response = NoResponse

\* a row deleted by a cleanup: its task_id, a uuid4, is not used again
DeletedTask == [NoTask EXCEPT !.status = "deleted"]

Exists(t) == tasks[t].status \notin {"absent", "deleted"}
\* task ids never given to a row
Fresh(t) == tasks[t].status = "absent"
TasksOf(f) == {t \in TaskIds : Exists(t) /\ tasks[t].file_id = f}

\* lines 40-55: without force_reextract, a completed content row and a task
\* of the file, the request is answered with the existing task
SkipsExtraction(f, force) ==
    /\ ~force
    /\ content[f].extraction_status = "completed"
    /\ TasksOf(f) # {}

\* lines 47-52: order_by(created_at.desc()).first()
LatestTasks_Oldest(f) ==
    {t \in TasksOf(f) : \A u \in TasksOf(f) : tasks[t].created_at <= tasks[u].created_at}
LatestTasks(f) ==
    {t \in TasksOf(f) : \A u \in TasksOf(f) : tasks[u].created_at <= tasks[t].created_at}

\* line 58: task_id = str(uuid.uuid4()), an id never used before
NextTaskId == CHOOSE t \in TaskIds : Fresh(t) /\ \A u \in 1..(t - 1) : ~Fresh(u)

\* lines 57-78: a pending task under a fresh task_id, the content row reset
\* to pending or created, commit, then extract_content.delay(file_id, task_id)
CreateTask(f) ==
    /\ \E t \in TaskIds :
         /\ Fresh(t)
         /\ \A u \in 1..(t - 1) : ~Fresh(u)
         /\ tasks' = [tasks EXCEPT ![t] = NewTask(f)]
         /\ queue' = [queue EXCEPT ![[task |-> t, file |-> f, retries |-> 0]] = @ + 1]
    /\ content' = [content EXCEPT ![f] =
                     IF @.extraction_status = "absent"
                       THEN [NoContent EXCEPT !.extraction_status = "pending"]
                       ELSE [@ EXCEPT !.extraction_status = "pending",
                                      !.error_message = "None"]]

\* routers/content_extraction.py, trigger_content_extraction: a request for
\* file f that is not answered with the existing task creates a pending task
\* under a fresh task_id, resets the content row and enqueues the job
TriggerExtraction(f, force) ==
    /\ ~SkipsExtraction(f, force)
    /\ CreateTask(f)
    /\ UNCHANGED <<now, notLedger, indexVars, histVars, indexQueue, dups, workerVars>>

\* trigger_content_extraction, lines 30-80, with its response
TriggerRequest(f, force) ==
    /\ response.n < MaxRequests
    /\ IF SkipsExtraction(f, force)
         THEN /\ \E t \in LatestTasks(f) :
                   response' = [n |-> response.n + 1, file_id |-> f,
                                force_reextract |-> force, task |-> t]
              /\ UNCHANGED <<dbVars, queue>>
         ELSE /\ CreateTask(f)
              /\ response' = [n |-> response.n + 1, file_id |-> f,
                              force_reextract |-> force, task |-> NextTaskId]
    /\ UNCHANGED <<now, notLedger, indexVars, requests, saved, indexQueue, dups,
                   workerVars>>

\* requests as long as fewer than MaxTasks rows were created
Request(f, force) ==
    /\ Cardinality({t \in TaskIds : ~Fresh(t)}) < MaxTasks
    /\ TriggerExtraction(f, force)

\* the queue delivers at least once: a message that is queued or being
\* executed is delivered again
InFlight(m) == queue[m] > 0 \/ \E w \in Workers : wpc[w] # "idle" /\ wmsg[w] = m
DuplicateDelivery(m) ==
    /\ dups < MaxDups
    /\ InFlight(m)
    /\ dups' = dups + 1
    /\ queue' = [queue EXCEPT ![m] = @ + 1]
    /\ UNCHANGED <<now, notLedger, indexVars, histVars, dbVars, indexQueue, workerVars>>

\* a worker receives a message: ExtractionTaskBase.__call__
Receive(w, m) ==
    /\ wpc[w] = "idle"
    /\ queue[m] > 0
    /\ queue' = [queue EXCEPT ![m] = @ - 1]
    /\ wpc' = [wpc EXCEPT ![w] = "begin"]
    /\ wmsg' = [wmsg EXCEPT ![w] = m]
    /\ wres' = [wres EXCEPT ![w] = "none"]
    /\ UNCHANGED <<now, notLedger, indexVars, histVars, dbVars, indexQueue, dups, wtext, wexc, wtmp>>

\* ExtractionTaskBase.__call__, the finally block: the execution is over and
\* its session and locals are gone
Return(w) ==
    /\ wpc' = [wpc EXCEPT ![w] = "idle"]
    /\ wmsg' = [wmsg EXCEPT ![w] = NoMsg]
    /\ wtext' = [wtext EXCEPT ![w] = "None"]
    /\ wexc' = [wexc EXCEPT ![w] = "None"]

\* lines 37-47: look the task up; mark it processing, whatever its status
Begin(w) ==
    LET t == wmsg[w].task IN
    /\ wpc[w] = "begin"
    /\ IF ~Exists(t)
         THEN \* return {"status": "failed", "error": "Task not found"}
              /\ Return(w)
              /\ wres' = [wres EXCEPT ![w] = "not_found"]
              /\ UNCHANGED tasks
         ELSE /\ tasks' = [tasks EXCEPT ![t].status = "processing",
                                        ![t].started_at = now]
              /\ wpc' = [wpc EXCEPT ![w] = "extract"]
              /\ UNCHANGED <<wres, wmsg, wtext, wexc>>
    /\ UNCHANGED <<now, notLedger, indexVars, histVars, content, brokerVars, wtmp>>

\* the errors of ErrKinds raised by the request of line 60
RequestErrs == {"Timeout"}

\* lines 50-70: the file lookup and the request to the collaborator succeed
ExtractOk(w, x) ==
    /\ wpc[w] = "extract"
    /\ wpc' = [wpc EXCEPT ![w] = "save"]
    /\ wtext' = [wtext EXCEPT ![w] = x]
    /\ requests' = [requests EXCEPT ![wmsg[w].task] = @ + 1]
    /\ UNCHANGED <<now, notLedger, indexVars, saved, response, dbVars, brokerVars, wmsg, wexc, wtmp, wres>>

\* lines 50-68: the file lookup or the request raises
ExtractRaises(w, k) ==
    /\ wpc[w] = "extract"
    /\ wpc' = [wpc EXCEPT ![w] = "fail_load"]
    /\ wexc' = [wexc EXCEPT ![w] = k]
    /\ requests' = [requests EXCEPT ![wmsg[w].task] =
                       IF k \in RequestErrs THEN @ + 1 ELSE @]
    /\ UNCHANGED <<now, notLedger, indexVars, saved, response, dbVars, brokerVars, wmsg, wtext, wtmp, wres>>

\* line 90: extraction_task.completed_at = datetime.utcnow()
CompletedStamp_Unset(t) == None
CompletedStamp(t) == t

\* the content row and the ledger entry say the extraction of f by t is done
Persisted(crow, trow) ==
    /\ crow.extraction_status = "completed"
    /\ trow.status = "completed"
    /\ trow.completed_at # None

\* lines 73-91: upsert the content row, mark the task completed, commit
Save(w) ==
    LET t == wmsg[w].task
        f == wmsg[w].file IN
    /\ wpc[w] = "save"
    /\ content' = [content EXCEPT ![f] =
                     [extraction_status |-> "completed", content |-> wtext[w],
                      error_message |-> "None"]]
    /\ tasks' = [tasks EXCEPT ![t].status = "completed",
                              ![t].completed_at = CompletedStamp(now)]
    /\ saved' = [saved EXCEPT ![t] = @ \/ Persisted(content'[f], tasks'[t])]
    /\ wpc' = [wpc EXCEPT ![w] = "enqueue_index"]
    /\ UNCHANGED <<now, notLedger, indexVars, requests, response, brokerVars, wmsg, wtext, wexc, wtmp, wres>>

\* lines 94-96: index_content.delay(file_id), return completed
EnqueueIndex(w) ==
    /\ wpc[w] = "enqueue_index"
    /\ indexQueue' = [indexQueue EXCEPT ![wmsg[w].file] = @ + 1]
    /\ wres' = [wres EXCEPT ![w] = "completed"]
    /\ Return(w)
    /\ UNCHANGED <<now, notLedger, indexVars, histVars, dbVars, queue, dups, wtmp>>

\* line 94 raises (the broker cannot be reached): the except block runs
EnqueueIndexRaises(w) ==
    /\ wpc[w] = "enqueue_index"
    /\ wpc' = [wpc EXCEPT ![w] = "fail_load"]
    /\ wexc' = [wexc EXCEPT ![w] = "OperationalError"]
    /\ UNCHANGED <<now, notLedger, indexVars, histVars, dbVars, brokerVars, wmsg, wtext, wtmp, wres>>

\* lines 102-109: the query of the except block, and the read of
\* "extraction_task.retry_count += 1"; "if extraction_task:" skips the update
\* when the row is gone
FailLoad(w) ==
    LET t == wmsg[w].task IN
    /\ wpc[w] = "fail_load"
    /\ IF Exists(t)
         THEN /\ wtmp' = [wtmp EXCEPT ![w] = tasks[t].retry_count]
              /\ wpc' = [wpc EXCEPT ![w] = "fail_commit"]
         ELSE /\ wtmp' = [wtmp EXCEPT ![w] = None]
              /\ wpc' = [wpc EXCEPT ![w] = "fail_finish"]
    /\ UNCHANGED <<now, notLedger, indexVars, histVars, dbVars, brokerVars, wmsg, wtext, wexc, wres>>

\* lines 107-110: status, error_message and the incremented retry_count are
\* written and committed; the UPDATE of a row deleted since the query matches
\* nothing, the flush raises and the task ends with that exception
FailCommit(w) ==
    LET t == wmsg[w].task IN
    /\ wpc[w] = "fail_commit"
    /\ wtmp' = [wtmp EXCEPT ![w] = 0]
    /\ IF Exists(t)
         THEN /\ tasks' = [tasks EXCEPT ![t].status = "failed",
                                        ![t].error_message = wexc[w],
                                        ![t].retry_count = wtmp[w] + 1]
              /\ wpc' = [wpc EXCEPT ![w] = "fail_finish"]
              /\ UNCHANGED <<wmsg, wtext, wexc, wres>>
         ELSE /\ wres' = [wres EXCEPT ![w] = "raised"]
              /\ Return(w)
              /\ UNCHANGED tasks
    /\ UNCHANGED <<now, notLedger, indexVars, histVars, content, brokerVars>>

\* line 123: the test that schedules a new attempt
ShouldRetry_Le(row) == row.retry_count <= row.max_retries
ShouldRetry(row) == row.retry_count < row.max_retries

\* lines 113-126: mark the content row failed, if there is one; then, with
\* "if extraction_task and ...", self.retry(...), which publishes the message
\* again with retries + 1 unless the task's own max_retries is used up, or
\* return failed. The attributes of extraction_task expired at the commit:
\* reading retry_count of a row deleted since raises
FailFinish(w) ==
    LET m == wmsg[w]
        t == m.task
        f == m.file IN
    /\ wpc[w] = "fail_finish"
    /\ content' = [content EXCEPT ![f] =
                     IF @.extraction_status = "absent" THEN @
                     ELSE [@ EXCEPT !.extraction_status = "failed",
                                    !.error_message = wexc[w]]]
    /\ IF wtmp[w] = None
         THEN /\ wres' = [wres EXCEPT ![w] = "failed"]
              /\ UNCHANGED queue
         ELSE IF ~Exists(t)
         THEN /\ wres' = [wres EXCEPT ![w] = "raised"]
              /\ UNCHANGED queue
         ELSE IF ShouldRetry(tasks[t])
         THEN IF m.retries + 1 > CeleryMaxRetries
                THEN \* self.retry raises exc: the task ends with the exception
                     /\ wres' = [wres EXCEPT ![w] = "raised"]
                     /\ UNCHANGED queue
                ELSE /\ queue' = [queue EXCEPT ![[m EXCEPT !.retries = @ + 1]] = @ + 1]
                     /\ wres' = [wres EXCEPT ![w] = "retry"]
         ELSE /\ wres' = [wres EXCEPT ![w] = "failed"]
              /\ UNCHANGED queue
    /\ wtmp' = [wtmp EXCEPT ![w] = 0]
    /\ Return(w)
    /\ UNCHANGED <<now, notLedger, indexVars, histVars, tasks, indexQueue, dups>>

\* routers/content_extraction.py, delete_extracted_content: the content row
\* of file f is deleted (404 when there is none); the search_index row that
\* goes with it is not part of this model
DeleteContent(f) ==
    /\ content[f].extraction_status # "absent"
    /\ content' = [content EXCEPT ![f] = NoContent]
    /\ searchIndex' = [searchIndex EXCEPT ![f] = DeleteFirst(@)]
    /\ UNCHANGED <<now, notLedger, indexerVars, histVars, tasks, brokerVars, workerVars>>

\* the rows a cleanup deletes: status st, created before the cutoff
Expired(t, st, days) ==
    /\ tasks[t].status = st
    /\ tasks[t].created_at < now - days

\* tasks/content_extraction.py, cleanup_failed_tasks (run hourly by beat):
\* failed rows older than the retention window are deleted
CleanupFailedTasks ==
    /\ tasks' = [t \in TaskIds |->
                   IF Expired(t, "failed", Retention) THEN DeletedTask ELSE tasks[t]]
    /\ UNCHANGED <<now, notLedger, indexVars, histVars, content, brokerVars, workerVars>>

\* services/monitoring_service.py, cleanup_old_tasks(days): completed and
\* failed rows older than days are deleted
CleanupOldTasks(days) ==
    /\ tasks' = [t \in TaskIds |->
                   IF Expired(t, "completed", days) \/ Expired(t, "failed", days)
                     THEN DeletedTask ELSE tasks[t]]
    /\ UNCHANGED <<now, notLedger, indexVars, histVars, content, brokerVars, workerVars>>

\* one step of worker w executing extract_content
WorkerStep(w) ==
    \/ \E m \in Msgs : Receive(w, m)
    \/ Begin(w)
    \/ \E x \in Texts : ExtractOk(w, x)
    \/ \E k \in ErrKinds : ExtractRaises(w, k)
    \/ Save(w)
    \/ EnqueueIndex(w)
    \/ EnqueueIndexRaises(w)
    \/ FailLoad(w)
    \/ FailCommit(w)
    \/ FailFinish(w)

\* ========================================================= index_content
\* texts the collaborator returns to the extractions that are indexed;
\* response.text.strip() is empty for a document without text
IndexTexts == {"text_a", ""}

\* SearchIndex(file_id=file_id, content=...), indexed_at by column default
NewSearchRow(text, t) == [content |-> text, indexed_at |-> t]

\* lines 149-151: search_index.content = ..., search_index.indexed_at = ...
UpdatedRow(row, text, t) == [row EXCEPT !.content = text, !.indexed_at = t]

\* models/content_extraction.py line 33 and 45: file_id is unique; an INSERT
\* of a second row of the file raises IntegrityError
InsertAllowed_NoConstraint(rows) == TRUE
InsertAllowed(rows) == rows = <<>>

\* line 143: "not extracted_content or not extracted_content.content"
NothingToIndex(crow) ==
    \/ crow.extraction_status # "completed"
    \/ crow.content = "None"
    \/ crow.content = ""

\* a worker takes an index_content message of file f from the broker
IndexReceive(i, f) ==
    /\ ipc[i] = "idle"
    /\ indexQueue[f] > 0
    /\ indexQueue' = [indexQueue EXCEPT ![f] = @ - 1]
    /\ ipc' = [ipc EXCEPT ![i] = "read"]
    /\ ifile' = [ifile EXCEPT ![i] = f]
    /\ ires' = [ires EXCEPT ![i] = "none"]
    /\ UNCHANGED <<now, notLedger, histVars, dbVars, queue, dups, workerVars,
                   searchIndex, itext, ifound>>

\* lines 133-144: read the completed content row; return skipped without it
IndexRead(i) ==
    LET crow == content[ifile[i]] IN
    /\ ipc[i] = "read"
    /\ IF NothingToIndex(crow)
         THEN /\ ipc' = [ipc EXCEPT ![i] = "idle"]
              /\ ires' = [ires EXCEPT ![i] = "skipped"]
              /\ UNCHANGED itext
         ELSE /\ ipc' = [ipc EXCEPT ![i] = "lookup"]
              /\ itext' = [itext EXCEPT ![i] = crow.content]
              /\ UNCHANGED ires
    /\ UNCHANGED <<now, notLedger, histVars, dbVars, brokerVars, workerVars,
                   searchIndex, ifile, ifound>>

\* line 147: db.query(SearchIndex).filter(file_id == file_id).first()
IndexLookup(i) ==
    /\ ipc[i] = "lookup"
    /\ ifound' = [ifound EXCEPT ![i] = searchIndex[ifile[i]] # <<>>]
    /\ ipc' = [ipc EXCEPT ![i] = "commit"]
    /\ UNCHANGED <<now, notLedger, histVars, dbVars, brokerVars, workerVars,
                   searchIndex, ifile, itext, ires>>

\* lines 149-166: update the row found or insert a new one, commit; the
\* UPDATE of a row deleted meanwhile (StaleDataError) and the INSERT next to
\* a row inserted meanwhile (IntegrityError) end in the except block
IndexCommit(i) ==
    LET f == ifile[i]
        rows == searchIndex[f]
        ok == IF ifound[i] THEN rows # <<>> ELSE InsertAllowed(rows) IN
    /\ ipc[i] = "commit"
    /\ searchIndex' =
         IF ~ok THEN searchIndex
         ELSE IF ifound[i]
           THEN [searchIndex EXCEPT ![f][1] = UpdatedRow(@, itext[i], now)]
           ELSE [searchIndex EXCEPT ![f] = Append(@, NewSearchRow(itext[i], now))]
    /\ ires' = [ires EXCEPT ![i] = IF ok THEN "completed" ELSE "failed"]
    /\ ipc' = [ipc EXCEPT ![i] = "idle"]
    /\ UNCHANGED <<now, notLedger, histVars, dbVars, brokerVars, workerVars,
                   ifile, itext, ifound>>

\* one step of worker i executing index_content
IndexStep(i) ==
    \/ \E f \in Files : IndexReceive(i, f)
    \/ IndexRead(i)
    \/ IndexLookup(i)
    \/ IndexCommit(i)

\* reindex_all_content, lines 193-212: index_content.delay for every
\* completed content row
ReindexAll ==
    /\ \A f \in Files : indexQueue[f] < MaxIndexQueue
    /\ indexQueue' = [f \in Files |->
                        IF content[f].extraction_status = "completed"
                          THEN indexQueue[f] + 1 ELSE indexQueue[f]]
    /\ UNCHANGED <<now, notLedger, histVars, dbVars, queue, dups, workerVars,
                   indexVars>>

\* ====================================================== EmbeddingsService
Services == 1..NumServices
\* ids of the rows of the files table
EmbFiles == 1..NumEmbFiles
\* embeddings: vectors of dimension one
Vecs == {0, 1, 3}

\* no row of file_embeddings for the file
NoVec == None
NoArg == [file_id |-> 0, embedding |-> NoVec]
\* no file at EMBEDDINGS_INDEX_PATH
NoIndexFile == [exists |-> FALSE, vectors |-> <<>>]
NoQuery == [op |-> "none", file_id |-> 0, file_ids |-> <<>>,
            threshold |-> <<0, 1>>, limit |-> 0]
NoAnswer == [list |-> <<>>, matrix |-> <<>>]

NoBefore == [row |-> NoVec, index |-> <<>>, file |-> NoIndexFile]
\* what a store_embedding call of instance s for file f finds
Before(s, f) == [row |-> embRows[f], index |-> svcIndex[s], file |-> indexFile]

EmbInit ==
    /\ embRows = [f \in EmbFiles |-> NoVec]
    /\ indexFile = NoIndexFile
    /\ svcLive = [s \in Services |-> FALSE]
    /\ svcIndex = [s \in Services |-> <<>>]
    /\ epc = [s \in Services |-> "idle"]
    /\ earg = [s \in Services |-> NoArg]
    /\ ebefore = [s \in Services |-> NoBefore]
    /\ eres = [s \in Services |-> "none"]
    /\ nstores = 0
    /\ hasEmbeddings = [f \in EmbFiles |-> FALSE]
    /\ simArg = [s \in Services |-> NoQuery]
    /\ simResult = [s \in Services |-> NoAnswer]

\* load_index: what the index holds after loading. The file is read if
\* there is one; otherwise create_new_index makes an empty index
LoadedIndex(file, rows) ==
    IF file.exists THEN file.vectors ELSE <<>>

\* EmbeddingsService.__init__, load_index
EmbLoad(s) ==
    /\ ~svcLive[s]
    /\ svcLive' = [svcLive EXCEPT ![s] = TRUE]
    /\ svcIndex' = [svcIndex EXCEPT ![s] = LoadedIndex(indexFile, embRows)]
    /\ UNCHANGED <<now, notEmb, embRows, indexFile, epc, earg, ebefore, eres, nstores,
                   hasEmbeddings, simVars>>

\* the request that made the instance is over
EmbDrop(s) ==
    /\ svcLive[s]
    /\ epc[s] = "idle"
    /\ svcLive' = [svcLive EXCEPT ![s] = FALSE]
    /\ svcIndex' = [svcIndex EXCEPT ![s] = <<>>]
    /\ eres' = [eres EXCEPT ![s] = "none"]
    /\ UNCHANGED <<now, notEmb, embRows, indexFile, epc, earg, ebefore, nstores,
                   hasEmbeddings, simVars>>

\* the file at EMBEDDINGS_INDEX_PATH is removed or damaged: load_index finds
\* no file, or faiss.read_index raises (lines 38-47)
IndexFileLost ==
    /\ indexFile.exists
    /\ indexFile' = NoIndexFile
    /\ UNCHANGED <<now, notEmb, embRows, svcLive, svcIndex, epc, earg, ebefore, eres,
                   nstores, hasEmbeddings, simVars>>

\* store_embedding, lines 71-80: INSERT ... ON CONFLICT (file_id) DO UPDATE,
\* commit
StoreCommit(s, f, v) ==
    /\ svcLive[s]
    /\ epc[s] = "idle"
    /\ nstores < MaxStores
    /\ nstores' = nstores + 1
    /\ embRows' = [embRows EXCEPT ![f] = v]
    /\ earg' = [earg EXCEPT ![s] = [file_id |-> f, embedding |-> v]]
    /\ ebefore' = [ebefore EXCEPT ![s] = Before(s, f)]
    /\ eres' = [eres EXCEPT ![s] = "none"]
    /\ epc' = [epc EXCEPT ![s] = "add"]
    /\ UNCHANGED <<now, notEmb, indexFile, svcLive, svcIndex, hasEmbeddings, simVars>>

\* what self.index.add does to the index: the vector is appended
IndexAdd(idx, v) == Append(idx, v)

\* store_embedding, lines 83-84: self.index.add(embedding_array)
StoreAdd(s) ==
    /\ epc[s] = "add"
    /\ svcIndex' = [svcIndex EXCEPT ![s] = IndexAdd(@, earg[s].embedding)]
    /\ epc' = [epc EXCEPT ![s] = "write"]
    /\ UNCHANGED <<now, notEmb, embRows, indexFile, svcLive, earg, ebefore, eres, nstores,
                   hasEmbeddings, simVars>>

\* store_embedding, lines 87-90: faiss.write_index(self.index, index_path),
\* return True
StoreWrite(s) ==
    /\ epc[s] = "write"
    /\ indexFile' = [exists |-> TRUE, vectors |-> svcIndex[s]]
    /\ eres' = [eres EXCEPT ![s] = "stored"]
    /\ epc' = [epc EXCEPT ![s] = "returned"]
    /\ UNCHANGED <<now, notEmb, embRows, svcLive, svcIndex, earg, ebefore, nstores,
                   hasEmbeddings, simVars>>

\* store_embedding, lines 71-79 raise (the database cannot be reached): the
\* except block rolls back and returns False
StoreCommitRaises(s, f, v) ==
    /\ svcLive[s]
    /\ epc[s] = "idle"
    /\ nstores < MaxStores
    /\ nstores' = nstores + 1
    /\ earg' = [earg EXCEPT ![s] = [file_id |-> f, embedding |-> v]]
    /\ ebefore' = [ebefore EXCEPT ![s] = Before(s, f)]
    /\ eres' = [eres EXCEPT ![s] = "failed"]
    /\ epc' = [epc EXCEPT ![s] = "returned"]
    /\ UNCHANGED <<now, notEmb, embRows, indexFile, svcLive, svcIndex, hasEmbeddings,
                   simVars>>

\* store_embedding, lines 83-84 raise (the embedding has not the dimension
\* of the index): lines 91-94, rollback after the commit of line 80, return
\* False
StoreAddRaises(s) ==
    /\ epc[s] = "add"
    /\ eres' = [eres EXCEPT ![s] = "failed"]
    /\ epc' = [epc EXCEPT ![s] = "returned"]
    /\ UNCHANGED <<now, notEmb, embRows, indexFile, svcLive, svcIndex, earg, ebefore,
                   nstores, hasEmbeddings, simVars>>

\* store_embedding, line 88 raises (the file cannot be written): lines 91-94
StoreWriteRaises(s) ==
    /\ epc[s] = "write"
    /\ eres' = [eres EXCEPT ![s] = "failed"]
    /\ epc' = [epc EXCEPT ![s] = "returned"]
    /\ UNCHANGED <<now, notEmb, embRows, indexFile, svcLive, svcIndex, earg, ebefore,
                   nstores, hasEmbeddings, simVars>>

\* routers/files.py, generate_embeddings, lines 255-256, after
\* store_embedding has returned: file.has_embeddings = True, commit
MarkEmbedded(s) ==
    /\ epc[s] = "returned"
    /\ hasEmbeddings' = [hasEmbeddings EXCEPT ![earg[s].file_id] = TRUE]
    /\ earg' = [earg EXCEPT ![s] = NoArg]
    /\ ebefore' = [ebefore EXCEPT ![s] = NoBefore]
    /\ epc' = [epc EXCEPT ![s] = "idle"]
    /\ UNCHANGED <<now, notEmb, embRows, indexFile, svcLive, svcIndex, eres,
                   nstores, simVars>>


\* ====================================================== SimilarityService
\* thresholds p/q as <<p, q>>
Thresholds == {<<0, 1>>, <<1, 2>>}
Limits == 1..MaxLimit
\* calculate_similarity(..., limit: int = 10)
DefaultLimit == 10

\* IndexFlatL2: the squared distance of two vectors
Distance(a, b) == (a - b) * (a - b)

\* index.search(target, k): the k entries of the index nearest to target as
\* <<position, distance>>, nearest first (of two entries at the same distance
\* the one stored first); positions count from 0; -1 fills the places for
\* which the index has no entry
Search(idx, target, k) ==
    LET n == Len(idx)
        d(i) == Distance(idx[i], target)
        rank(i) == Cardinality({j \in 1..n : d(j) < d(i) \/ (d(j) = d(i) /\ j < i)})
    IN [r \in 1..k |->
          IF r <= n
            THEN LET i == CHOOSE j \in 1..n : rank(j) = r - 1
                 IN [idx |-> i - 1, distance |-> d(i)]
            ELSE [idx |-> 0 - 1, distance |-> 0]]

\* line 40: if idx == -1 or idx == file_id: continue
Skipped_OnlyInvalid(idx, file_id) == idx = 0 - 1
Skipped(idx, file_id) == idx = 0 - 1 \/ idx = file_id

\* lines 43-44: similarity = 1 / (1 + distance); similarity >= threshold
MeetsThreshold_Always(distance, threshold) == TRUE
MeetsThreshold(distance, threshold) ==
    threshold[2] >= threshold[1] * (1 + distance)

\* line 45: db.query(File).filter(File.id == idx).first()
FileExists(id) == id \in EmbFiles

\* lines 47-52: the entry appended for a hit
Entry(hit) == [file_id |-> hit.idx, distance |-> hit.distance]

\* similarity_score of a is above that of b
ScoreAbove(a, b) == a.distance < b.distance

\* sorted(results, key=similarity_score, reverse=True): a stable sort
SortedByScore(results) ==
    LET n == Len(results)
        rank(i) == Cardinality({j \in 1..n :
                       \/ ScoreAbove(results[j], results[i])
                       \/ (~ScoreAbove(results[i], results[j]) /\ j < i)})
    IN [r \in 1..n |-> results[CHOOSE i \in 1..n : rank(i) = r - 1]]

\* [:limit]
Truncated_Not(results, limit) == results
Truncated(results, limit) ==
    SubSeq(results, 1, IF limit < Len(results) THEN limit ELSE Len(results))

\* lines 23-29: the embedding of the queried file; None when there is no
\* such file, when has_embeddings is not set, or when it has no row
TargetEmbedding_Zero(rows, flags, file_id) ==
    IF FileExists(file_id) /\ rows[file_id] # NoVec THEN rows[file_id] ELSE 0
TargetEmbedding(rows, flags, file_id) ==
    IF ~FileExists(file_id) \/ ~flags[file_id] THEN NoVec ELSE rows[file_id]

\* calculate_similarity(file_id, threshold, limit) given the index of the
\* service, the rows of file_embeddings and the has_embeddings flags
calculate_similarity(idx, rows, flags, file_id, threshold, limit) ==
    IF TargetEmbedding(rows, flags, file_id) = NoVec THEN <<>>
    ELSE LET hits == Search(idx, TargetEmbedding(rows, flags, file_id), limit + 1)
             Kept(hit) == /\ ~Skipped(hit.idx, file_id)
                          /\ MeetsThreshold(hit.distance, threshold)
                          /\ FileExists(hit.idx)
             kept == SelectSeq(hits, Kept)
             results == [i \in 1..Len(kept) |-> Entry(kept[i])]
         IN Truncated(SortedByScore(results), limit)

\* line 65: similar_docs = self.calculate_similarity(file_id, threshold) for
\* the n-th id of file_ids
SimilarDocs_OfFirst(idx, rows, flags, file_ids, threshold, n) ==
    calculate_similarity(idx, rows, flags, file_ids[1], threshold, DefaultLimit)
SimilarDocs(idx, rows, flags, file_ids, threshold, n) ==
    calculate_similarity(idx, rows, flags, file_ids[n], threshold, DefaultLimit)

\* matrix[file_id] = similar_docs, for the ids of file_ids[1..n] in turn
RECURSIVE MatrixLoop(_, _, _, _, _, _)
MatrixLoop(idx, rows, flags, file_ids, threshold, n) ==
    IF n = 0 THEN <<>>
    ELSE LET before == MatrixLoop(idx, rows, flags, file_ids, threshold, n - 1)
             id == file_ids[n]
         IN [k \in (DOMAIN before) \cup {id} |->
               IF k = id
                 THEN SimilarDocs(idx, rows, flags, file_ids, threshold, n)
                 ELSE before[k]]

\* calculate_similarity_matrix(file_ids, threshold)
calculate_similarity_matrix(idx, rows, flags, file_ids, threshold) ==
    MatrixLoop(idx, rows, flags, file_ids, threshold, Len(file_ids))

\* routers/similarity.py, get_similar_documents: the instance answers
\* calculate_similarity(file_id, threshold, limit)
QuerySimilar(s, file_id, threshold, limit) ==
    /\ svcLive[s]
    /\ epc[s] = "idle"
    /\ epc' = [epc EXCEPT ![s] = "answered"]
    /\ simArg' = [simArg EXCEPT ![s] =
                    [NoQuery EXCEPT !.op = "similar", !.file_id = file_id,
                                    !.threshold = threshold, !.limit = limit]]
    /\ simResult' = [simResult EXCEPT ![s] =
                       [NoAnswer EXCEPT !.list =
                          calculate_similarity(svcIndex[s], embRows, hasEmbeddings,
                                               file_id, threshold, limit)]]
    /\ UNCHANGED <<now, notEmb, storeVars>>

\* routers/similarity.py, calculate_similarity_matrix with file_ids given
QueryMatrix(s, file_ids, threshold) ==
    /\ svcLive[s]
    /\ epc[s] = "idle"
    /\ epc' = [epc EXCEPT ![s] = "answered"]
    /\ simArg' = [simArg EXCEPT ![s] =
                    [NoQuery EXCEPT !.op = "matrix", !.file_ids = file_ids,
                                    !.threshold = threshold]]
    /\ simResult' = [simResult EXCEPT ![s] =
                       [NoAnswer EXCEPT !.matrix =
                          calculate_similarity_matrix(svcIndex[s], embRows,
                              hasEmbeddings, file_ids, threshold)]]
    /\ UNCHANGED <<now, notEmb, storeVars>>

\* the answer has been sent
Respond(s) ==
    /\ epc[s] = "answered"
    /\ epc' = [epc EXCEPT ![s] = "idle"]
    /\ simArg' = [simArg EXCEPT ![s] = NoQuery]
    /\ simResult' = [simResult EXCEPT ![s] = NoAnswer]
    /\ UNCHANGED <<now, notEmb, storeVars>>


Init ==
    /\ now = 0
    /\ CBInit
    /\ RetryInit
    /\ LedgerInit
    /\ EmbInit

\* several threads share the breaker
NextCB == Tick \/ \E c \in Callers : CBStep(c)
SpecCB == Init /\ [][NextCB]_vars

\* one thread calls the breaker: consecutive calls
NextCBSeq == Tick \/ CBStep(1)
SpecCBSeq == Init /\ [][NextCBSeq]_vars

\* one call of a function wrapped by retry_with_backoff
NextRetry == RetryInvoke \/ RetrySleep
SpecRetry == Init /\ [][NextRetry]_vars

\* one call of a function wrapped by retry_with_backoff, decorated with any
\* of the arguments, with the delay of every sleep
NextBackoff ==
    \/ \E bd \in BaseDelays, md \in MaxDelays, j \in BOOLEAN :
           Decorate([base_delay |-> bd, max_delay |-> md, jitter |-> j])
    \/ RetryInvoke
    \/ \E r \in 0..(JitterSteps - 1) : RetryBackoff(r)
SpecBackoff == Init /\ [][NextBackoff]_vars

\* consecutive calls of TikaService.extract_text by one thread, through the
\* decorators and the breaker. The inner decorators turn every exception
\* into ExtractionError, which no retrying handler of retry_with_backoff
\* takes: the sleep of line 94 is never reached
NextExtractText ==
    \/ Tick
    \/ ExtractTextCall
    \/ FuncReturns(1)
    \/ FuncRaises(1)
    \/ OnSuccessCount(1)
    \/ OnSuccessState(1)
    \/ OnFailureLoad(1)
    \/ OnFailureStore(1)
    \/ OnFailureTest(1)
    \/ ExtractTextInvoke
    \/ ExtractTextAgain
SpecExtractText == Init /\ [][NextExtractText]_vars

\* requests, deliveries and workers of the extraction pipeline
NextLedger ==
    \/ LedgerTick
    \/ \E f \in Files, force \in BOOLEAN : Request(f, force)
    \/ \E m \in Msgs : DuplicateDelivery(m)
    \/ \E w \in Workers : WorkerStep(w)
SpecLedger == Init /\ [][NextLedger]_vars

\* one step of worker w executing extract_content while every request to the
\* collaborator times out
TimedOutStep(w) ==
    \/ \E m \in Msgs : Receive(w, m)
    \/ Begin(w)
    \/ ExtractRaises(w, "Timeout")
    \/ FailLoad(w)
    \/ FailCommit(w)
    \/ FailFinish(w)

\* the collaborator always times out and the broker delivers every message
\* once; a queued message is eventually executed by a worker
NextTimeouts ==
    \/ LedgerTick
    \/ \E f \in Files : Request(f, FALSE)
    \/ \E w \in Workers : TimedOutStep(w)
SpecTimeouts ==
    Init /\ [][NextTimeouts]_vars /\ WF_vars(\E w \in Workers : TimedOutStep(w))

\* one step of worker w executing extract_content when the request to the
\* collaborator is sent: it is answered or it times out
RequestingStep(w) ==
    \/ \E m \in Msgs : Receive(w, m)
    \/ Begin(w)
    \/ \E x \in Texts : ExtractOk(w, x)
    \/ ExtractRaises(w, "Timeout")
    \/ Save(w)
    \/ EnqueueIndex(w)
    \/ FailLoad(w)
    \/ FailCommit(w)
    \/ FailFinish(w)

\* a thread using the shared breaker next to a worker of the extraction
\* pipeline
NextPipelineCB ==
    \/ Tick
    \/ CBStep(1)
    \/ \E f \in Files : Request(f, FALSE)
    \/ RequestingStep(1)
SpecPipelineCB == Init /\ [][NextPipelineCB]_vars

\* the pipeline next to the endpoint that deletes extracted content; every
\* message is delivered once and one worker executes them
NextContent ==
    \/ LedgerTick
    \/ \E f \in Files, force \in BOOLEAN : Request(f, force)
    \/ \E f \in Files : DeleteContent(f)
    \/ WorkerStep(1)
SpecContent == Init /\ [][NextContent]_vars

\* extraction followed by indexing: one worker extracts without failing,
\* reindex_all_content and the endpoint that deletes extracted content run
\* at any time, several workers execute index_content
NextIndex ==
    \/ \E f \in Files : Request(f, FALSE)
    \/ \E m \in Msgs : Receive(1, m)
    \/ Begin(1)
    \/ \E x \in IndexTexts : ExtractOk(1, x)
    \/ Save(1)
    \/ EnqueueIndex(1)
    \/ ReindexAll
    \/ \E f \in Files : DeleteContent(f)
    \/ \E i \in Indexers : IndexStep(i)
SpecIndex == Init /\ [][NextIndex]_vars

\* the pipeline next to the two cleanups of the ledger; every message is
\* delivered once, after a delay of any length
NextCleanup ==
    \/ CleanupTick
    \/ \E f \in Files : Request(f, FALSE)
    \/ CleanupFailedTasks
    \/ \E days \in 1..MaxDays : CleanupOldTasks(days)
    \/ WorkerStep(1)
SpecCleanup == Init /\ [][NextCleanup]_vars

\* requests to trigger_content_extraction, with and without force_reextract,
\* while one worker executes the jobs, none of which fails
NextTrigger ==
    \/ LedgerTick
    \/ \E f \in Files, force \in BOOLEAN : TriggerRequest(f, force)
    \/ \E m \in Msgs : Receive(1, m)
    \/ Begin(1)
    \/ \E x \in Texts : ExtractOk(1, x)
    \/ Save(1)
    \/ EnqueueIndex(1)
SpecTrigger == Init /\ [][NextTrigger]_vars

\* any number of requests for a file, every message delivered once
NextRequests ==
    \/ \E f \in Files, force \in BOOLEAN : TriggerExtraction(f, force)
    \/ \E w \in Workers : WorkerStep(w)
SpecRequests == Init /\ [][NextRequests]_vars

\* one EmbeddingsService instance at a time: consecutive store_embedding
\* calls, each of which succeeds
NextEmbSeq ==
    \/ EmbLoad(1)
    \/ EmbDrop(1)
    \/ \E f \in EmbFiles, v \in Vecs : StoreCommit(1, f, v)
    \/ StoreAdd(1)
    \/ StoreWrite(1)
    \/ MarkEmbedded(1)
SpecEmbSeq == Init /\ [][NextEmbSeq]_vars

\* several requests at a time, each with its own EmbeddingsService instance
\* over the one index file, storing these vectors
ConcVecs == {0, 1}
NextEmbConc ==
    \/ \E s \in Services : EmbLoad(s)
    \/ \E s \in Services, f \in EmbFiles, v \in ConcVecs : StoreCommit(s, f, v)
    \/ \E s \in Services : StoreAdd(s)
    \/ \E s \in Services : StoreWrite(s)
    \/ \E s \in Services : MarkEmbedded(s)
SpecEmbConc == Init /\ [][NextEmbConc]_vars

\* one EmbeddingsService instance: consecutive store_embedding calls, each
\* of which can fail at the database, at the index or at the index file
NextEmbFail ==
    \/ EmbLoad(1)
    \/ \E f \in EmbFiles, v \in Vecs : StoreCommit(1, f, v)
    \/ \E f \in EmbFiles, v \in Vecs : StoreCommitRaises(1, f, v)
    \/ StoreAdd(1)
    \/ StoreAddRaises(1)
    \/ StoreWrite(1)
    \/ StoreWriteRaises(1)
    \/ MarkEmbedded(1)
SpecEmbFail == Init /\ [][NextEmbFail]_vars

\* one EmbeddingsService instance at a time: files are given embeddings and
\* similarity queries are answered in between
QueryIds == {1, 2, NumEmbFiles + 1}
NextSimilar ==
    \/ EmbLoad(1)
    \/ \E f \in EmbFiles, v \in Vecs : StoreCommit(1, f, v)
    \/ StoreAdd(1)
    \/ StoreWrite(1)
    \/ MarkEmbedded(1)
    \/ \E q \in QueryIds, th \in Thresholds, k \in Limits :
           QuerySimilar(1, q, th, k)
    \/ Respond(1)
SpecSimilar == Init /\ [][NextSimilar]_vars

\* consecutive requests, each with its own EmbeddingsService instance, and
\* an index file that can get lost in between
NextEmbLoad ==
    \/ EmbLoad(1)
    \/ EmbDrop(1)
    \/ IndexFileLost
    \/ \E f \in EmbFiles, v \in Vecs : StoreCommit(1, f, v)
    \/ StoreAdd(1)
    \/ StoreWrite(1)
    \/ MarkEmbedded(1)
SpecEmbLoad == Init /\ [][NextEmbLoad]_vars

\* calculate_similarity_matrix answered by one EmbeddingsService instance
IdLists == {<<>>, <<2>>, <<1, 2>>, <<2, 2>>, <<NumEmbFiles + 1, 1>>}
NextMatrix ==
    \/ EmbLoad(1)
    \/ \E f \in EmbFiles, v \in Vecs : StoreCommit(1, f, v)
    \/ StoreAdd(1)
    \/ StoreWrite(1)
    \/ MarkEmbedded(1)
    \/ \E ids \in IdLists : QueryMatrix(1, ids, <<1, 2>>)
    \/ Respond(1)
SpecMatrix == Init /\ [][NextMatrix]_vars

\* ================================================================ claims

\* C1: in every reachable state, whatever deliveries (duplicates included),
\* failed attempts and retries happened, retry_count of every ledger entry is
\* at most its max_retries.
C1_RetryCountBounded ==
    \A t \in TaskIds : Exists(t) => tasks[t].retry_count <= tasks[t].max_retries

\* C2: once a ledger entry is completed, or failed with retry_count >=
\* max_retries, no step changes its status.
Terminal(row) ==
    \/ row.status = "completed"
    \/ row.status = "failed" /\ row.retry_count >= row.max_retries
C2_TerminalIsFinal ==
    [][\A t \in TaskIds : Terminal(tasks[t]) => tasks'[t].status = tasks[t].status]_vars

\* C3: of the workers executing extract_content for one task_id, only one is
\* past the transition to processing, at the call of the extraction
\* collaborator, at a time.
C3_OneWinner ==
    \A w1, w2 \in Workers :
        (w1 # w2 /\ wpc[w1] = "extract" /\ wpc[w2] = "extract")
            => wmsg[w1].task # wmsg[w2].task

\* C4: when extract_content looks up a ledger entry whose status is
\* processing, completed or failed, the transition fails: the entry is left as
\* it is (status, started_at, retry_count) and the worker does not go on to
\* the extraction call.
C4_ProcessingOnlyFromPending ==
    [][\A w \in Workers :
          (/\ wpc[w] = "begin"
           /\ wpc'[w] # "begin"
           /\ tasks[wmsg[w].task].status \in {"processing", "completed", "failed"})
          => /\ tasks'[wmsg[w].task] = tasks[wmsg[w].task]
             /\ wpc'[w] # "extract"]_vars

\* C5: one thread, starting from closed with failure_count 0 (initially, or
\* after a successful call): when failure_threshold calls in a row have ended
\* with an exception the breaker is open, and every one of these calls invoked
\* the wrapped function and re-raised its exception.
C5_OpensAtThreshold ==
    cpc[1] = "idle" =>
        /\ (streakCalls >= failure_threshold => state = "open")
        /\ (streakCalls <= failure_threshold => streakInvoked)
C5_Witness ==
    /\ cpc[1] = "idle"
    /\ streakCalls = failure_threshold
    /\ streakInvoked
    /\ cres[1] = "err"
    /\ state = "open"

\* C6: a call that begins while the breaker is open and less than
\* recovery_timeout has elapsed since last_failure_time raises the circuit-open
\* error: no caller enters the wrapped function, and state, failure_count and
\* last_failure_time stay as they are.
C6_OpenFailsFast ==
    [][(/\ state = "open"
        /\ last_failure_time # None
        /\ now - last_failure_time < recovery_timeout
        /\ ncalls' = ncalls + 1)
       => /\ UNCHANGED <<state, failure_count, last_failure_time, cpc>>
          /\ \E c \in Callers :
                /\ cpc[c] = "idle"
                /\ cres'[c] = "open"
                /\ \A d \in Callers \ {c} : cres'[d] = cres[d]]_vars
C6_Witness ==
    /\ state = "open"
    /\ failure_count = failure_threshold
    /\ now - last_failure_time < recovery_timeout
    /\ ncalls = failure_threshold + 1
    /\ \E c \in Callers : cpc[c] = "idle" /\ cres[c] = "open"
    /\ \A c \in Callers : cpc[c] = "idle"

\* C7: after recovery_timeout exactly one trial call is allowed: at most one
\* caller at a time is inside a call that was let through to the wrapped
\* function in half-open.
C7_SingleTrial ==
    Cardinality({c \in Callers : cpc[c] # "idle" /\ centry[c] = "half-open"}) <= 1

\* C8: one thread: a trial call (let through in half-open) whose wrapped
\* function returns leaves the breaker closed with failure_count 0, and the
\* breaker stays closed while fewer than failure_threshold calls have failed
\* since.
C8_TrialSuccessCloses ==
    cpc[1] = "idle" =>
        /\ (centry[1] = "half-open" /\ cres[1] = "ok"
               => state = "closed" /\ failure_count = 0)
        /\ (streakCalls < failure_threshold
               => state = "closed" /\ failure_count = streakCalls)
C8_Witness ==
    /\ cpc[1] = "idle"
    /\ centry[1] = "half-open"
    /\ cres[1] = "ok"
    /\ state = "closed"
    /\ failure_count = 0

\* C9: one thread: a trial call (let through in half-open) whose wrapped
\* function raises leaves the breaker open, with last_failure_time set no
\* earlier than the moment the function raised.
C9_TrialFailureReopens ==
    (cpc[1] = "idle" /\ centry[1] = "half-open" /\ cres[1] = "err") =>
        /\ state = "open"
        /\ last_failure_time # None
        /\ last_failure_time >= trialRaisedAt
        /\ last_failure_time <= now
C9_Witness ==
    /\ cpc[1] = "idle"
    /\ centry[1] = "half-open"
    /\ cres[1] = "err"
    /\ state = "open"
    /\ last_failure_time = now

\* C10: retry_with_backoff: when every invocation of the wrapped function
\* raised a retryable error the call ends after max_retries + 1 invocations
\* and max_retries sleeps by raising RetryableError for the last error; when
\* an invocation returns, the call returns its value, it is the last
\* invocation, and every sleep lies between two invocations.
AllRetryable ==
    \A i \in 1..Len(invocations) :
        invocations[i].type = "raise" /\ invocations[i].val \in RetryableExc
C10_RetryBounded ==
    /\ Len(invocations) <= max_retries + 1
    /\ sleeps <= max_retries
    /\ \A i \in 1..(Len(invocations) - 1) : invocations[i].type = "raise"
    /\ rpc = "done" =>
         LET n == Len(invocations) IN
         /\ AllRetryable =>
              /\ n = max_retries + 1
              /\ sleeps = max_retries
              /\ rresult = Raised("RetryableError", <<invocations[n].val, n>>)
         /\ invocations[n].type = "return" =>
              /\ rresult = Returned(invocations[n].val)
              /\ sleeps = n - 1
C10_WitnessExhausted ==
    /\ rpc = "done"
    /\ AllRetryable
    /\ Len(invocations) = max_retries + 1
    /\ sleeps = max_retries
    /\ rresult.kind = "raise"

\* C11: retry_with_backoff: an invocation of the wrapped function that raises
\* a non-retryable error is the last one: the call ends at once by raising
\* NonRetryableError for that error, and no sleep follows it.
IsNonRetryable(o) == o.type = "raise" /\ o.val \in NonRetryableExc
C11_NonRetryablePropagates ==
    \A i \in 1..Len(invocations) :
        IsNonRetryable(invocations[i]) =>
            /\ i = Len(invocations)
            /\ rpc = "done"
            /\ sleeps = i - 1
            /\ rresult = Raised("NonRetryableError", <<invocations[i].val, i>>)
C11_Witness ==
    /\ rpc = "done"
    /\ Len(invocations) = 2
    /\ IsNonRetryable(invocations[2])
    /\ sleeps = 1
    /\ rresult.val = "NonRetryableError"

\* C12: retry_with_backoff: an invocation that ends with the error call()
\* raises while the circuit is open is the last one: the call ends after that
\* attempt, with no sleep after it and no further call into the breaker.
C12_CircuitOpenNotRetried ==
    \A i \in 1..Len(invocations) :
        (invocations[i].type = "raise" /\ invocations[i].val = CircuitOpenError) =>
            /\ i = Len(invocations)
            /\ rpc = "done"
            /\ sleeps = i - 1

\* C13: while the breaker is open and its recovery timeout has not elapsed,
\* no step of an execution of extract_content sends a request to the
\* extraction collaborator.
C13_NoRequestWhileOpen ==
    [][(state = "open" /\ ~_should_attempt_reset) => requests' = requests]_vars

\* C14: with max_retries = 3, a collaborator that always times out and every
\* message delivered once, a job that was requested eventually stops being
\* retried, for good: exactly 3 executions sent a request, the ledger entry is
\* failed with retry_count = 3 and the error message of the timeout, and no
\* message of the job is queued or being executed.
Quiescent(t) ==
    /\ \A m \in Msgs : m.task = t => queue[m] = 0
    /\ \A w \in Workers : wmsg[w].task # t
TimedOutForGood(t) ==
    /\ Quiescent(t)
    /\ requests[t] = 3
    /\ tasks[t].status = "failed"
    /\ tasks[t].retry_count = 3
    /\ tasks[t].error_message = "Timeout"
C14_ThreeAttemptsThenFailed ==
    \A t \in TaskIds : Exists(t) ~> [](TimedOutForGood(t))
C14_Witness ==
    /\ tasks[1].max_retries = 3
    /\ TimedOutForGood(1)
    /\ \E w \in Workers : wres[w] = "failed"

\* C15: every failed attempt, whatever the class of its error, adds exactly
\* one to retry_count of the ledger entry; the execution then schedules a new
\* attempt if and only if the incremented retry_count is below max_retries,
\* and otherwise ends with the entry failed and no message published.
CommitsFailure(w) == wpc[w] = "fail_commit" /\ wpc'[w] = "fail_finish"
EndsFailure(w) == wpc[w] = "fail_finish" /\ wpc'[w] = "idle"
Scheduled(w) ==
    LET n == [wmsg[w] EXCEPT !.retries = @ + 1] IN
    n \in Msgs /\ queue'[n] = queue[n] + 1
C15_RetryDecision ==
    [][\A w \in Workers :
         LET t == wmsg[w].task IN
         /\ CommitsFailure(w) =>
              tasks'[t].retry_count = tasks[t].retry_count + 1
         /\ EndsFailure(w) =>
              /\ Scheduled(w) <=> tasks[t].retry_count < tasks[t].max_retries
              /\ ~Scheduled(w) =>
                   /\ queue' = queue
                   /\ wres'[w] = "failed"
                   /\ tasks'[t].status = "failed"]_vars

\* C16: when an attempt has failed, an ExtractedContent row of the file
\* exists with status failed and the error message the attempt wrote to the
\* ledger entry, also when the file had no such row before the failure.
C16_FailureRecordedInContent ==
    [][\A w \in Workers :
         EndsFailure(w) =>
             /\ content'[wmsg[w].file].extraction_status = "failed"
             /\ content'[wmsg[w].file].error_message = wexc[w]
             /\ tasks'[wmsg[w].task].error_message = wexc[w]]_vars

\* C18: when an execution of extract_content ends failed without scheduling
\* a retry, the ledger holds the entry of its task with status failed and the
\* error message of its last error, also when a cleanup ran before.
EndsFailedNoRetry(w) ==
    /\ wpc[w] # "idle"
    /\ wpc'[w] = "idle"
    /\ wres'[w] \in {"failed", "not_found"}
C18_TerminalFailureInLedger ==
    [][\A w \in Workers :
         EndsFailedNoRetry(w) =>
             /\ tasks'[wmsg[w].task].status = "failed"
             /\ wexc[w] # "None" => tasks'[wmsg[w].task].error_message = wexc[w]]_vars

\* C17: a step of extract_content that enqueues the indexing step for a file
\* is taken by an execution for that file whose task has persisted the
\* content row completed and the ledger entry completed with completed_at,
\* and that execution ends completed: an attempt that ends failed has
\* enqueued nothing.
EnqueuesIndex(w) ==
    /\ wpc[w] = "enqueue_index"
    /\ wpc'[w] = "idle"
    /\ indexQueue'[wmsg[w].file] = indexQueue[wmsg[w].file] + 1
C17_IndexAfterPersisted ==
    [][/\ indexQueue' # indexQueue =>
            \E w \in Workers :
                /\ EnqueuesIndex(w)
                /\ saved[wmsg[w].task]
                /\ wres'[w] = "completed"
       /\ \A w \in Workers :
            (wpc[w] # "idle" /\ wpc'[w] = "idle" /\ wres'[w] # "completed")
                => indexQueue' = indexQueue]_vars
C17_Witness ==
    /\ indexQueue[1] = 1
    /\ saved[1]
    /\ \E w \in Workers : wres[w] = "completed" /\ wpc[w] = "idle"

\* C19: in no reachable state do two ledger entries of one file both have
\* status processing, whatever requests (force_reextract or not) and
\* deliveries occurred.
C19_OneProcessingPerFile ==
    \A t, u \in TaskIds :
        (/\ t # u
         /\ tasks[t].status = "processing"
         /\ tasks[u].status = "processing") => tasks[t].file_id # tasks[u].file_id

\* C20: when no store_embedding call is in progress, the vector index of the
\* service holds exactly one vector per Embedding row, the row's current
\* vector: as many vectors as there are rows, and every vector as often as
\* there are rows that hold it.
EmbeddedFiles == {f \in EmbFiles : embRows[f] # NoVec}
Occurrences(idx, v) == Cardinality({i \in 1..Len(idx) : idx[i] = v})
IndexMatchesRows(idx) ==
    /\ Len(idx) = Cardinality(EmbeddedFiles)
    /\ \A v \in Vecs :
         Occurrences(idx, v) = Cardinality({f \in EmbeddedFiles : embRows[f] = v})
C20_OneVectorPerRow ==
    \A s \in Services :
        (svcLive[s] /\ epc[s] = "idle") => IndexMatchesRows(svcIndex[s])

\* ------------------------------------------------- similarity queries
\* instance s holds the answer to calculate_similarity(simArg[s]...)
AnsweredSimilar(s) == epc[s] = "answered" /\ simArg[s].op = "similar"
\* the embedding row of file f, None for an id that is no file
RowOf(f) == IF f \in EmbFiles THEN embRows[f] ELSE NoVec

\* C21: every neighbour calculate_similarity reports is the document whose
\* stored embedding is the matched index vector: the reported file has an
\* embedding row, and that embedding lies at the reported distance from the
\* embedding of the queried file.
C21_NeighbourIsOwner ==
    \A s \in Services :
        AnsweredSimilar(s) =>
            \A i \in 1..Len(simResult[s].list) :
                LET e == simResult[s].list[i] IN
                /\ RowOf(e.file_id) # NoVec
                /\ e.distance = Distance(RowOf(e.file_id), RowOf(simArg[s].file_id))

\* C23: calculate_similarity returns at most limit entries, in order of
\* non-increasing similarity_score, that is of non-decreasing distance.
C23_LimitedAndSorted ==
    \A s \in Services :
        AnsweredSimilar(s) =>
            LET l == simResult[s].list IN
            /\ Len(l) <= simArg[s].limit
            /\ \A i, j \in 1..Len(l) : i < j => l[i].distance <= l[j].distance
C23_Witness ==
    /\ AnsweredSimilar(1)
    /\ simArg[1].limit = 1
    /\ Len(simResult[1].list) = 1
    /\ Len(SelectSeq(Search(svcIndex[1], RowOf(simArg[1].file_id), 2),
                     LAMBDA h : h.idx \in EmbFiles \ {simArg[1].file_id})) = 2

\* C24: no entry calculate_similarity(file_id, ...) returns has the queried
\* file_id.
C24_ExcludesQueried ==
    \A s \in Services :
        AnsweredSimilar(s) =>
            \A i \in 1..Len(simResult[s].list) :
                simResult[s].list[i].file_id # simArg[s].file_id
C24_Witness ==
    /\ AnsweredSimilar(1)
    /\ Len(simResult[1].list) >= 1
    /\ Len(svcIndex[1]) > simArg[1].file_id

\* C25: every entry calculate_similarity(file_id, threshold, limit) returns
\* has similarity_score = 1 / (1 + distance) >= threshold.
C25_AboveThreshold ==
    \A s \in Services :
        AnsweredSimilar(s) =>
            \A i \in 1..Len(simResult[s].list) :
                simArg[s].threshold[2] >=
                    simArg[s].threshold[1] * (1 + simResult[s].list[i].distance)
C25_Witness ==
    /\ AnsweredSimilar(1)
    /\ simArg[1].threshold = <<1, 2>>
    /\ simArg[1].limit = 2
    /\ Len(simResult[1].list) = 1
    /\ \E p \in 1..Len(svcIndex[1]) :
          /\ p - 1 \in EmbFiles \ {simArg[1].file_id}
          /\ Distance(svcIndex[1][p], RowOf(simArg[1].file_id)) > 1

\* C26: with threshold 0 and limit k, a query for a file with a stored
\* embedding, when n other files have a stored embedding, returns min(k, n)
\* entries with pairwise distinct file_ids.
Neighbours(q) == {f \in EmbFiles \ {q} : embRows[f] # NoVec}
C26_AllNeighboursUpToK ==
    \A s \in Services :
        (/\ AnsweredSimilar(s)
         /\ simArg[s].threshold = <<0, 1>>
         /\ RowOf(simArg[s].file_id) # NoVec
         /\ hasEmbeddings[simArg[s].file_id]) =>
            LET l == simResult[s].list
                k == simArg[s].limit
                n == Cardinality(Neighbours(simArg[s].file_id))
            IN /\ Len(l) = IF k < n THEN k ELSE n
               /\ \A i, j \in 1..Len(l) : i # j => l[i].file_id # l[j].file_id

\* C27: a calculate_similarity query for a document without a stored
\* embedding is answered with the empty list, and the step that answers it
\* changes neither an index nor a stored row.
AnswersSimilar(s) == epc[s] = "idle" /\ epc'[s] = "answered" /\ simArg'[s].op = "similar"
C27_NoEmbeddingEmptyAnswer ==
    [][\A s \in Services :
         (AnswersSimilar(s) /\ RowOf(simArg'[s].file_id) = NoVec) =>
             /\ simResult'[s].list = <<>>
             /\ UNCHANGED <<embRows, indexFile, svcIndex, hasEmbeddings>>]_vars
C27_Witness ==
    /\ AnsweredSimilar(1)
    /\ simArg[1].file_id \in EmbFiles
    /\ embRows[simArg[1].file_id] = NoVec
    /\ Len(svcIndex[1]) >= 2
    /\ simResult[1].list = <<>>

\* C22: when an instance loads the index while the index file is absent or
\* unreadable, the loaded index contains the vector of every row of
\* file_embeddings.
Loads(s) == ~svcLive[s] /\ svcLive'[s]
C22_LoadRebuildsFromRows ==
    [][\A s \in Services :
         (Loads(s) /\ ~indexFile.exists) =>
             \A f \in EmbFiles :
                 embRows[f] # NoVec =>
                     \E i \in 1..Len(svcIndex'[s]) : svcIndex'[s][i] = embRows[f]]_vars

\* C28: calculate_similarity_matrix(file_ids, threshold) returns a mapping
\* whose keys are exactly the ids of file_ids and whose value for an id is
\* the answer of calculate_similarity for that id with the same threshold,
\* whatever other ids file_ids holds.
AnsweredMatrix(s) == epc[s] = "answered" /\ simArg[s].op = "matrix"
IdsOf(file_ids) == {file_ids[i] : i \in 1..Len(file_ids)}
C28_MatrixIsPerIdQuery ==
    \A s \in Services :
        AnsweredMatrix(s) =>
            LET mx == simResult[s].matrix IN
            /\ DOMAIN mx = IdsOf(simArg[s].file_ids)
            /\ \A id \in DOMAIN mx :
                 mx[id] = calculate_similarity(svcIndex[s], embRows, hasEmbeddings,
                                               id, simArg[s].threshold, DefaultLimit)
C28_Witness ==
    /\ AnsweredMatrix(1)
    /\ Len(simArg[1].file_ids) = 2
    /\ simArg[1].file_ids[1] # simArg[1].file_ids[2]
    /\ \A id \in DOMAIN simResult[1].matrix : simResult[1].matrix[id] # <<>>

\* C29: index_content is idempotent: a run of index_content(file_id) that
\* ends while search_index already holds the row of an earlier run with the
\* text this run read (the completed content is unchanged), whether the two
\* runs followed each other or interleaved, leaves exactly one row of the
\* file, with the same content.
EndsIndexRun(i) == ipc[i] = "commit" /\ ipc'[i] = "idle"
IndexedBefore(i) ==
    /\ Len(searchIndex[ifile[i]]) = 1
    /\ searchIndex[ifile[i]][1].content = itext[i]
C29_IndexTwiceOneRow ==
    [][\A i \in Indexers :
         (EndsIndexRun(i) /\ IndexedBefore(i)) =>
             /\ Len(searchIndex'[ifile[i]]) = 1
             /\ searchIndex'[ifile[i]][1].content = itext[i]]_vars
\* two runs for file 1 ended, the second of them having interleaved with the
\* first: both looked the row up before either inserted it
C29_Witness ==
    /\ \A i \in Indexers : ipc[i] = "idle" /\ ifile[i] = 1
    /\ ires[1] = "completed"
    /\ ires[2] = "failed"
    /\ ~ifound[2]
    /\ Len(searchIndex[1]) = 1
    /\ searchIndex[1][1].content = content[1].content

\* C30: index_content skips, leaving search_index unchanged, exactly when
\* the content row of the file is missing or not completed; otherwise it
\* goes on to upsert the row with the text of the content row.
ReadsContent(i) == ipc[i] = "read" /\ ipc'[i] # "read"
SkipsIndex(i) == ReadsContent(i) /\ ires'[i] = "skipped"
C30_SkipsOnlyWithoutCompleted ==
    [][\A i \in Indexers :
         ReadsContent(i) =>
             /\ SkipsIndex(i) <=> content[ifile[i]].extraction_status # "completed"
             /\ SkipsIndex(i) => searchIndex' = searchIndex]_vars

\* C31: a cleanup deletes only ledger rows that are older than the retention
\* window and terminal: completed, or failed with retry_count >= max_retries.
\* A row that is pending, processing, or failed with a retry still to come is
\* never deleted.
TerminalRow(row) ==
    \/ row.status = "completed"
    \/ row.status = "failed" /\ row.retry_count >= row.max_retries
DeletedByStep(t) == Exists(t) /\ tasks'[t] = DeletedTask
C31_CleanupDeletesOnlyTerminal ==
    [][\A t \in TaskIds :
         DeletedByStep(t) =>
             /\ TerminalRow(tasks[t])
             /\ tasks[t].created_at < now - 1]_vars

\* C32: with concurrent callers sharing one CircuitBreaker no interleaving of
\* _on_failure and _on_success loses or doubles an update: when every call
\* begun so far has invoked the wrapped function and ended with its exception
\* (n failed calls, no success), failure_count equals n.
OnlyFailedCalls ==
    /\ \A c \in Callers : cpc[c] = "idle"
    /\ streakInvoked
    /\ streakCalls = ncalls
C32_NoLostUpdate ==
    OnlyFailedCalls => failure_count = ncalls

\* C33: writers to the vector index are serialized: once store_embedding
\* calls for different file_ids, made by several EmbeddingsService instances,
\* have returned, the vector of every one of these files is in the persisted
\* index file; no write is lost.
NoStoreRunning == \A s \in Services : epc[s] \in {"idle", "returned"}
InIndexFile(v) == \E i \in 1..Len(indexFile.vectors) : indexFile.vectors[i] = v
EachFileStoredOnce ==
    Cardinality({f \in EmbFiles : embRows[f] # NoVec}) = nstores
C33_NoWriteLost ==
    (NoStoreRunning /\ EachFileStoredOnce) =>
        \A f \in EmbFiles : embRows[f] # NoVec => InIndexFile(embRows[f])

\* C34: TikaService.extract_text: when the request to the collaborator fails
\* with a connection error or a timeout and the breaker is still closed, the
\* extraction call is attempted again (up to max_retries times) before the
\* call ends with an error; after a not-found or permission failure it is not
\* attempted again.
RaisedRaw(i, kinds) ==
    rawOutcomes[i].type = "raise" /\ rawOutcomes[i].val \in kinds
C34_ConnectionFailureRetried ==
    rpc = "done" =>
        \A i \in 1..Len(rawOutcomes) :
            /\ (/\ RaisedRaw(i, {"ConnectionError", "Timeout"})
                /\ i <= max_retries
                /\ state = "closed")
               => Len(rawOutcomes) > i
            /\ RaisedRaw(i, FileExc) => Len(rawOutcomes) = i

\* C36: a non-success response of the collaborator inside extract_text is a
\* failure for the breaker: the call that got it leaves failure_count above
\* zero, it does not reset the counter.
GotNonSuccess ==
    /\ rpc = "done"
    /\ rawOutcomes # <<>>
    /\ rawOutcomes[Len(rawOutcomes)] = [type |-> "return", val |-> NonSuccess]
C36_NonSuccessCountsAsFailure ==
    GotNonSuccess => failure_count > 0

\* C35: enqueueing the indexing step is fire-and-continue: after
\* index_content.delay has failed, no step of the execution changes the
\* ledger entry (it stays completed, retry_count as it was) or the
\* ExtractedContent row (it stays completed), and none schedules a retry.
AfterEnqueueFailed(w) == wexc[w] = "OperationalError" /\ wpc'[w] # wpc[w]
C35_EnqueueFailureLeavesCompleted ==
    [][\A w \in Workers :
         AfterEnqueueFailed(w) =>
             /\ tasks'[wmsg[w].task] = tasks[wmsg[w].task]
             /\ content'[wmsg[w].file] = content[wmsg[w].file]
             /\ queue' = queue]_vars

\* C37: retry_with_backoff: the delay slept before retry number attempt
\* (0-based) is at most max_delay and at least half of the unjittered value
\* min(base_delay * 2^attempt, max_delay), it is that value when jitter is
\* off, and the unjittered values are non-decreasing in attempt.
C37_DelayBounds ==
    \A i \in 1..Len(delays) :
        LET d == delays[i] IN
        /\ d.attempt = i - 1
        /\ d.slept.num <= backoff.max_delay * d.slept.den
        /\ 2 * d.slept.num >= d.unjittered * d.slept.den
        /\ d.slept.num <= d.unjittered * d.slept.den
        /\ ~backoff.jitter => d.slept.num = d.unjittered * d.slept.den
        /\ i > 1 => delays[i - 1].unjittered <= d.unjittered
\* three sleeps with jitter on, the last two cut to max_delay, the first one
\* jittered below its unjittered value
C37_Witness ==
    /\ Len(delays) = max_retries
    /\ backoff.jitter
    /\ delays[2].unjittered = backoff.max_delay
    /\ delays[3].unjittered = backoff.max_delay
    /\ delays[1].unjittered < backoff.max_delay
    /\ delays[1].slept.num < delays[1].unjittered * delays[1].slept.den

\* C38: whenever no call is inside the breaker, also after interleaved
\* concurrent calls: state open implies failure_count >= failure_threshold
\* and last_failure_time set, and the breaker is not closed with
\* failure_count >= failure_threshold.
NoCallRunning == \A c \in Callers : cpc[c] = "idle"
C38_StateMatchesCount ==
    NoCallRunning =>
        /\ state = "open" =>
             failure_count >= failure_threshold /\ last_failure_time # None
        /\ ~(state = "closed" /\ failure_count >= failure_threshold)

\* C39: when store_embedding has returned False, the Embedding row of
\* file_id, the in-memory index and the index file are as they were before
\* the call, also when the failure happened in the index-add or the
\* file-write step.
ReturnedFalse(s) == epc[s] = "returned" /\ eres[s] = "failed"
C39_FailedStoreChangesNothing ==
    \A s \in Services :
        ReturnedFalse(s) =>
            /\ embRows[earg[s].file_id] = ebefore[s].row
            /\ svcIndex[s] = ebefore[s].index
            /\ indexFile = ebefore[s].file

\* C40: trigger_content_extraction without force_reextract, for a file whose
\* ExtractedContent is completed and that has a ledger entry, changes no
\* ledger entry, no content row and no queue, and returns the most recently
\* created entry of the file. Every other request creates exactly one pending
\* entry under a task_id never used before, sets the ExtractedContent of the
\* file to pending and enqueues exactly one job, for that entry.
Answered == response'.n = response.n + 1
NoOpRequest ==
    /\ ~response'.force_reextract
    /\ content[response'.file_id].extraction_status = "completed"
    /\ TasksOf(response'.file_id) # {}
====
